---------------------------- MODULE Spec2Model ----------------------------
(***************************************************************************)
(* A model of pyMAPPINGS.core.mappings_model.InputModel: the parameter     *)
(* store (the setters and getters of one model configuration), the        *)
(* input-script compiler (_generate_id_string, _build_input_content,       *)
(* preview_input_file), validate_params and write_input_file, with the     *)
(* files and directories on disk they look at.                             *)
(*                                                                         *)
(* Python values are records [t, n, s]: t is the Python type name, n the   *)
(* numeric value in units of 1/Scale (ints, floats and bools), s the text  *)
(* of a str.  Text is a TLA+ string; a compiled script is kept as the      *)
(* sequence of its newline-terminated lines.                               *)
(***************************************************************************)
EXTENDS Integers, Sequences, FiniteSets, TLC

\* self:   the fields of the InputModel instance
\* fs:     the paths that exist on disk
\* last:   the last call on the instance: its name, arguments, exception and result
\* prev:   the call before it, kept while the same call is repeated without a change
\*         of the instance or the disk in between
\* ncalls: the number of calls made so far that change the instance or the disk
\* written: the text of each file written by write_input_file
VARIABLES self, fs, last, prev, ncalls, written

vars == <<self, fs, last, prev, ncalls, written>>

(***************************************************************************)
(* Bounds of the model.                                                    *)
(***************************************************************************)
\* The number of calls of one run that change the instance or the disk: setter
\* calls, write_input_file calls and file removals.
MaxCalls == 2

\* Numbers are fixed-point: value * Scale, five decimal digits.
Scale == 10^5

(***************************************************************************)
(* Python values.                                                          *)
(***************************************************************************)
None == [t |-> "NoneType", n |-> 0, s |-> ""]

PyInt(i) == [t |-> "int", n |-> i * Scale, s |-> ""]

\* A float given by its value in units of 1/Scale.
PyFloat(m) == [t |-> "float", n |-> m, s |-> ""]

PyStr(x) == [t |-> "str", n |-> 0, s |-> x]

PyBool(b) == [t |-> "bool", n |-> IF b THEN Scale ELSE 0, s |-> ""]

\* isinstance(v, (int, float)): bool is a subclass of int.
IsNumber(v) == v.t \in {"int", "float", "bool"}

\* isinstance(v, int)
IsInt(v) == v.t \in {"int", "bool"}

\* isinstance(v, bool)
IsBool(v) == v.t = "bool"

\* The truth value python gives v in a condition.
Truthy(v) == IF v.t = "str" THEN v.s # "" ELSE v.n # 0

\* isinstance(v, str)
IsStr(v) == v.t = "str"

(***************************************************************************)
(* Text: digits, decimal formatting and parsing, upper-casing.             *)
(***************************************************************************)
Digit == <<"0", "1", "2", "3", "4", "5", "6", "7", "8", "9">>

DigitVal == [c \in {"0", "1", "2", "3", "4", "5", "6", "7", "8", "9"} |->
               CHOOSE d \in 0..9 : Digit[d + 1] = c]

CharAt(x, i) == SubSeq(x, i, i)

Abs(i) == IF i < 0 THEN -i ELSE i

RECURSIVE NatToStr(_)
\* str(n) of a natural number.
NatToStr(n) == IF n < 10 THEN Digit[n + 1]
               ELSE NatToStr(n \div 10) \o Digit[(n % 10) + 1]

RECURSIVE ZeroPad(_, _)
\* The digits of n, left-padded with zeros to width w.
ZeroPad(n, w) == IF w = 0 THEN ""
                 ELSE ZeroPad(n \div 10, w - 1) \o Digit[(n % 10) + 1]

\* FormatFixed with the digits past the d-th cut off instead of rounded.
FormatFixed_truncates(m, d) ==
    LET q == Abs(m) \div 10^(5 - d)
    IN  (IF m < 0 THEN "-" ELSE "")
          \o NatToStr(q \div 10^d) \o "." \o ZeroPad(q % 10^d, d)

\* format(x, ".<d>f") of the number m / Scale: correctly rounded to d decimals
\* (half to even on an exact tie), sign kept even when the result is zero.
FormatFixed(m, d) ==
    LET unit == 10^(5 - d)
        a    == Abs(m)
        q0   == a \div unit
        r    == a % unit
        q    == IF 2 * r > unit \/ (2 * r = unit /\ q0 % 2 = 1) THEN q0 + 1 ELSE q0
    IN  (IF m < 0 THEN "-" ELSE "")
          \o NatToStr(q \div 10^d) \o "." \o ZeroPad(q % 10^d, d)

RECURSIVE StripZeros(_)
StripZeros(x) == IF Len(x) > 1 /\ CharAt(x, Len(x)) = "0"
                 THEN StripZeros(SubSeq(x, 1, Len(x) - 1)) ELSE x

\* str(v) / f"{v}" of a Python value.
Str(v) ==
    CASE v.t = "str"   -> v.s
      [] v.t = "bool"  -> IF v.n = 0 THEN "False" ELSE "True"
      [] v.t = "int"   -> (IF v.n < 0 THEN "-" ELSE "") \o NatToStr(Abs(v.n) \div Scale)
      [] v.t = "float" -> (IF v.n < 0 THEN "-" ELSE "")
                            \o NatToStr(Abs(v.n) \div Scale) \o "."
                            \o StripZeros(ZeroPad(Abs(v.n) % Scale, 5))
      [] OTHER         -> "None"

RECURSIVE DigitsVal(_)
\* The number a string of decimal digits reads as.
DigitsVal(x) == IF Len(x) = 0 THEN 0
                ELSE 10 * DigitsVal(SubSeq(x, 1, Len(x) - 1)) + DigitVal[CharAt(x, Len(x))]

RECURSIVE DotPos(_, _)
\* The position of the first "." of x at or after i (Len(x) + 1 when none).
DotPos(x, i) == IF i > Len(x) THEN i
                ELSE IF CharAt(x, i) = "." THEN i ELSE DotPos(x, i + 1)

\* float(x) of a decimal literal, in units of 1/Scale (at most 5 decimals).
ParseFloat(x) ==
    LET neg  == Len(x) > 0 /\ CharAt(x, 1) = "-"
        body == IF neg THEN SubSeq(x, 2, Len(x)) ELSE x
        dot  == DotPos(body, 1)
        ip   == SubSeq(body, 1, dot - 1)
        fp   == SubSeq(body, dot + 1, Len(body))
        mag  == DigitsVal(ip) * Scale + DigitsVal(fp) * 10^(5 - Len(fp))
    IN  IF neg THEN -mag ELSE mag

\* float(x) accepts the text x: an optional sign, digits and at most one point.
IsFloatText(x) ==
    LET body == IF Len(x) > 0 /\ CharAt(x, 1) = "-" THEN SubSeq(x, 2, Len(x)) ELSE x
        dots == {i \in 1..Len(body) : CharAt(body, i) = "."}
    IN  /\ Cardinality(dots) <= 1
        /\ Len(body) > Cardinality(dots)
        /\ \A i \in (1..Len(body)) \ dots : CharAt(body, i) \in DOMAIN DigitVal

UpperChar(c) ==
    CASE c = "m" -> "M" [] c = "p" -> "P" [] c = "s" -> "S" [] c = "x" -> "X"
      [] c = "a" -> "A" [] c = "d" -> "D"
      [] OTHER -> c

RECURSIVE Upper(_)
\* str.upper()
Upper(x) == IF Len(x) = 0 THEN ""
            ELSE UpperChar(CharAt(x, 1)) \o Upper(SubSeq(x, 2, Len(x)))

(***************************************************************************)
(* The inputs of a run.                                                    *)
(***************************************************************************)
ModelNames == {"n159"}

FileA == "/data/a.txt"

FileB == "/data/b.txt"

Missing == "/data/missing.txt"

Paths == {FileA, FileB, Missing}

\* os.path.exists
Exists(files, p) == p \in files

\* The home directory of the user running the program.
Home == "/home/user"

\* os.path.expanduser
ExpandUser(x) == IF Len(x) > 0 /\ CharAt(x, 1) = "~"
                 THEN Home \o SubSeq(x, 2, Len(x)) ELSE x

RECURSIVE LastSlash(_)
\* The position of the last "/" of x, 0 when it has none.
LastSlash(x) == IF Len(x) = 0 THEN 0
                ELSE IF CharAt(x, Len(x)) = "/" THEN Len(x)
                ELSE LastSlash(SubSeq(x, 1, Len(x) - 1))

\* os.path.dirname
Dirname(x) == IF LastSlash(x) = 1 THEN "/" ELSE SubSeq(x, 1, LastSlash(x) - 1)

\* os.path.join of a directory and a name
Join(dir, name) ==
    IF Len(name) > 0 /\ CharAt(name, 1) = "/" THEN name
    ELSE IF Len(dir) = 0 \/ CharAt(dir, Len(dir)) = "/" THEN dir \o name
    ELSE dir \o "/" \o name

\* The directory write_input_file writes into; a MAPPINGS installation provides it.
LabDir == Dirname(ExpandUser("~/mappings520/lab/"))


PathArgs == {None} \cup {PyStr(p) : p \in Paths}

\* 6, 6.125 (an exact tie, to even), -0.001 (rounds to a negative zero), "6.5"
NumArgs == {None, PyInt(6), PyFloat(612500), PyFloat(-100), PyStr("6.5")}

\* 0.02, 0.03125 (an exact tie at 4 decimals), 0.99996 (carries), 0, "0.02"
StepArgs == {None, PyFloat(2000), PyFloat(3125), PyFloat(99996), PyInt(0), PyStr("0.02")}

AgeArgs == {None, PyInt(0), PyInt(12), PyInt(-1), PyFloat(250000)}

GeoArgs == {None, PyStr("p"), PyStr("X"), PyInt(1)}

PahArgs == {None, PyFloat(50000), PyInt(1), PyFloat(150000)}

SwitchArgs == {None, PyStr("1e3")}

FlagArgs == {None, PyBool(TRUE), PyBool(FALSE), PyInt(1)}

GrainArgs == {None, PyStr("M"), PyStr("p"), PyStr("S"), PyStr("X")}

IdArgs == {None, PyStr("run_01")}

\* the default file name, and a file in a sub-directory of the lab directory
FileNameArgs == {None, PyStr("sub/run.mv")}

\* no output path, one inside a directory, one without a directory part
OutputArgs == {None, PyStr("out/n159"), PyStr("n159")}

(***************************************************************************)
(* The configuration.                                                      *)
(***************************************************************************)
\* The fields init_params sets, for a model named name.
init_params(name) ==
    [model_name              |-> name,
     abund                   |-> None,
     depl                    |-> None,
     spec                    |-> None,
     age_index               |-> PyInt(9),
     geometry                |-> "S",
     pressure                |-> "6.00",
     temperature             |-> "4.00",
     filling_factor          |-> "1.0",
     logq                    |-> "8.00",
     step_size               |-> "0.0200",
     luminosity              |-> "40.00",
     output_path             |-> None,
     include_dust            |-> TRUE,
     dust_depl_path          |-> None,
     pah_fraction            |-> PyFloat(30000),
     pah_switch_value        |-> "4e2",
     eval_dust_temp          |-> PyBool(FALSE),
     graphite_cospatial      |-> PyBool(FALSE),
     allow_grain_destruction |-> PyBool(FALSE),
     grain_distribution      |-> "M"]

\* The outcome of one call: the configuration it leaves, the exception it raised
\* ("ok" when none) and the value it returned.
Return(st, ret) == [st |-> st, exc |-> "ok", ret |-> ret]

Raise(st, exc) == [st |-> st, exc |-> exc, ret |-> None]

\* return float(text): value is the number text reads as; float() raises ValueError
\* for a text that is not a number.
float_getter(s, text, value) ==
    IF IsFloatText(text) THEN Return(s, value) ELSE Raise(s, "ValueError")

(***************************************************************************)
(* The setters and getters, as functions of the configuration s, the files *)
(* on disk and the arguments.                                              *)
(***************************************************************************)
\* set_abund with the assignment made before the existence check.
set_abund_assigns_first(s, files, path) ==
    IF path # None /\ ~Exists(files, path.s)
    THEN Raise([s EXCEPT !.abund = path], "FileNotFoundError")
    ELSE Return([s EXCEPT !.abund = path], None)

set_abund(s, files, path) ==
    IF path # None /\ ~Exists(files, path.s)
    THEN Raise(s, "FileNotFoundError")
    ELSE Return([s EXCEPT !.abund = path], None)

get_abund(s) == s.abund

set_depl(s, files, path) ==
    IF path # None /\ ~Exists(files, path.s)
    THEN Raise(s, "FileNotFoundError")
    ELSE Return([s EXCEPT !.depl = path], None)

get_depl(s) == s.depl

set_spec(s, files, path) ==
    IF path # None /\ ~Exists(files, path.s)
    THEN Raise(s, "FileNotFoundError")
    ELSE Return([s EXCEPT !.spec = path], None)

get_spec(s) == s.spec

valid_distributions == {"M", "P", "S"}

\* set_dust(include_dust, depl_path, pah_fraction, pah_switch_value, eval_dust_temp,
\* graphite_cospatial, allow_grain_destruction, grain_distribution): a holds the
\* arguments.  Each field is assigned as its check passes; a failing check raises
\* and keeps the assignments made before it.
set_dust(s, files, a) ==
    LET s1 == [s EXCEPT !.include_dust = a.include_dust]
        s2 == IF a.depl_path # None
              THEN [s1 EXCEPT !.dust_depl_path = a.depl_path] ELSE s1
        s3 == IF a.pah_fraction # None
              THEN [s2 EXCEPT !.pah_fraction = a.pah_fraction] ELSE s2
        s4 == IF a.pah_switch_value # None
              THEN [s3 EXCEPT !.pah_switch_value = Str(a.pah_switch_value)] ELSE s3
        s5 == IF a.eval_dust_temp # None
              THEN [s4 EXCEPT !.eval_dust_temp = a.eval_dust_temp] ELSE s4
        s6 == IF a.graphite_cospatial # None
              THEN [s5 EXCEPT !.graphite_cospatial = a.graphite_cospatial] ELSE s5
        s7 == IF a.allow_grain_destruction # None
              THEN [s6 EXCEPT !.allow_grain_destruction = a.allow_grain_destruction]
              ELSE s6
        s8 == IF a.grain_distribution # None
              THEN [s7 EXCEPT !.grain_distribution = Upper(a.grain_distribution.s)] ELSE s7
    IN  IF a.include_dust /\ a.depl_path = None /\ s1.dust_depl_path = None
          THEN Raise(s1, "ValueError")
        ELSE IF a.depl_path # None /\ ~Exists(files, a.depl_path.s)
          THEN Raise(s1, "FileNotFoundError")
        ELSE IF a.pah_fraction # None
                /\ (~IsNumber(a.pah_fraction)
                    \/ ~(0 <= a.pah_fraction.n /\ a.pah_fraction.n <= Scale))
          THEN Raise(s2, "ValueError")
        ELSE IF a.eval_dust_temp # None /\ ~IsBool(a.eval_dust_temp)
          THEN Raise(s4, "TypeError")
        ELSE IF a.graphite_cospatial # None /\ ~IsBool(a.graphite_cospatial)
          THEN Raise(s5, "TypeError")
        ELSE IF a.allow_grain_destruction # None /\ ~IsBool(a.allow_grain_destruction)
          THEN Raise(s6, "TypeError")
        ELSE IF a.grain_distribution # None
                /\ (~IsStr(a.grain_distribution)
                    \/ Upper(a.grain_distribution.s) \notin valid_distributions)
          THEN Raise(s7, "ValueError")
        ELSE Return(s8, None)

\* The arguments of a set_dust call; every one but include_dust defaults to None.
DustCall(inc, path, pah, sw, ev, gc, gd, dist) ==
    [include_dust |-> inc, depl_path |-> path, pah_fraction |-> pah,
     pah_switch_value |-> sw, eval_dust_temp |-> ev, graphite_cospatial |-> gc,
     allow_grain_destruction |-> gd, grain_distribution |-> dist]

\* enable_dust that passes on the path only.
enable_dust_keeps_settings(s, files, depl_path, pah, sw, ev, gc, gd, dist) ==
    set_dust(s, files, DustCall(TRUE, depl_path, None, None, None, None, None, None))

\* enable_dust(depl_path, pah_fraction=0.3, pah_switch_value="4e2", eval_dust_temp=False,
\* graphite_cospatial=False, allow_grain_destruction=False, grain_distribution="M")
enable_dust(s, files, depl_path, pah, sw, ev, gc, gd, dist) ==
    set_dust(s, files, DustCall(TRUE, depl_path, pah, sw, ev, gc, gd, dist))

\* disable_dust that also forgets the stored dust depletion file.
disable_dust_clears_file(s, files) ==
    LET r == set_dust(s, files, DustCall(FALSE, None, None, None, None, None, None, None))
    IN  [r EXCEPT !.st = [r.st EXCEPT !.dust_depl_path = None]]

disable_dust(s, files) ==
    set_dust(s, files, DustCall(FALSE, None, None, None, None, None, None, None))

set_grain_destruction(s, allow) ==
    IF ~IsBool(allow) THEN Raise(s, "TypeError")
    ELSE Return([s EXCEPT !.allow_grain_destruction = allow], None)

\* set_grain_distribution that stores the code as it was given.
set_grain_distribution_keeps_case(s, distribution) ==
    IF ~IsStr(distribution) \/ Upper(distribution.s) \notin valid_distributions
    THEN Raise(s, "ValueError")
    ELSE Return([s EXCEPT !.grain_distribution = distribution.s], None)

set_grain_distribution(s, distribution) ==
    IF ~IsStr(distribution) \/ Upper(distribution.s) \notin valid_distributions
    THEN Raise(s, "ValueError")
    ELSE Return([s EXCEPT !.grain_distribution = Upper(distribution.s)], None)

get_dust_settings(s) ==
    [include_dust            |-> s.include_dust,
     depl_path               |-> s.dust_depl_path,
     pah_fraction            |-> s.pah_fraction,
     pah_switch_value        |-> s.pah_switch_value,
     eval_dust_temp          |-> s.eval_dust_temp,
     graphite_cospatial      |-> s.graphite_cospatial,
     allow_grain_destruction |-> s.allow_grain_destruction,
     grain_distribution      |-> s.grain_distribution]

set_age(s, index) ==
    IF index # None /\ ~IsInt(index) THEN Raise(s, "TypeError")
    ELSE IF index # None /\ index.n < 0 THEN Raise(s, "ValueError")
    ELSE Return([s EXCEPT !.age_index = IF index # None THEN index ELSE PyInt(9)], None)

get_age(s) == s.age_index

set_geometry(s, geo) ==
    IF geo = None THEN Return([s EXCEPT !.geometry = "S"], None)
    ELSE IF IsStr(geo) /\ Upper(geo.s) \in {"S", "P"}
      THEN Return([s EXCEPT !.geometry = Upper(geo.s)], None)
    ELSE Raise(s, "ValueError")

get_geometry(s) == s.geometry

\* No type check: formatting a str with ".2f" raises ValueError before the assignment.
set_pressure(s, logp) ==
    IF logp # None /\ ~IsNumber(logp) THEN Raise(s, "ValueError")
    ELSE Return([s EXCEPT !.pressure =
                    IF logp # None THEN FormatFixed(logp.n, 2) ELSE "6.00"], None)

\* get_pressure that returns the stored text instead of converting it.
get_pressure_returns_text(s) == PyStr(s.pressure)

get_pressure(s) == PyFloat(ParseFloat(s.pressure))

set_temperature(s, logTe) ==
    IF logTe # None /\ ~IsNumber(logTe) THEN Raise(s, "TypeError")
    ELSE Return([s EXCEPT !.temperature =
                    IF logTe # None THEN FormatFixed(logTe.n, 2) ELSE "4.00"], None)

get_temperature(s) == PyFloat(ParseFloat(s.temperature))

set_filling_factor(s, ff) ==
    IF ff # None /\ ~IsNumber(ff) THEN Raise(s, "TypeError")
    ELSE Return([s EXCEPT !.filling_factor =
                    IF ff # None THEN FormatFixed(ff.n, 2) ELSE "1.0"], None)

\* Returns the stored string, not a float.
get_filling_factor(s) == PyStr(s.filling_factor)

set_ionization_param(s, logq) ==
    IF logq # None /\ ~IsNumber(logq) THEN Raise(s, "TypeError")
    ELSE Return([s EXCEPT !.logq =
                    IF logq # None THEN FormatFixed(logq.n, 2) ELSE "8.00"], None)

get_ionization_param(s) == PyFloat(ParseFloat(s.logq))

set_step_size(s, step) ==
    IF step # None /\ ~IsNumber(step) THEN Raise(s, "TypeError")
    ELSE IF step # None /\ step.n <= 0 THEN Raise(s, "ValueError")
    ELSE Return([s EXCEPT !.step_size =
                    IF step # None THEN FormatFixed(step.n, 4) ELSE "0.02"], None)

get_step_size(s) == PyFloat(ParseFloat(s.step_size))

set_luminosity(s, logL) ==
    IF logL # None /\ ~IsNumber(logL) THEN Raise(s, "TypeError")
    ELSE Return([s EXCEPT !.luminosity =
                    IF logL # None THEN FormatFixed(logL.n, 2) ELSE "40.00"], None)

get_luminosity(s) == PyFloat(ParseFloat(s.luminosity))

\* set_output(path): os.makedirs(os.path.dirname(path), exist_ok=True) raises
\* FileNotFoundError for a path without a directory part; `made` is the directory
\* the call leaves on disk.
set_output(s, files, path) ==
    IF path # None /\ Dirname(path.s) = ""
    THEN [st |-> s, exc |-> "FileNotFoundError", ret |-> None, made |-> {}]
    ELSE [st |-> [s EXCEPT !.output_path = path], exc |-> "ok", ret |-> None,
          made |-> IF path # None THEN {Dirname(path.s)} ELSE {}]

get_output(s) == s.output_path


(***************************************************************************)
(* The script compiler.                                                    *)
(***************************************************************************)
RECURSIVE RemoveDots(_)
\* x.replace('.', '')
RemoveDots(x) == IF Len(x) = 0 THEN ""
                 ELSE (IF CharAt(x, 1) = "." THEN "" ELSE CharAt(x, 1))
                        \o RemoveDots(SubSeq(x, 2, Len(x)))

\* _generate_id_string without the age index.
_generate_id_string_without_age(s) ==
    LET geo          == IF s.geometry = "S" THEN "SPH" ELSE "PP"
        pressure_str == "Pk" \o s.pressure
        logq_str     == "Q" \o RemoveDots(s.logq)
    IN  geo \o "_" \o s.model_name \o "_" \o logq_str \o "_" \o pressure_str

_generate_id_string(s) ==
    LET geo          == IF s.geometry = "S" THEN "SPH" ELSE "PP"
        age_str      == "t" \o Str(s.age_index)
        pressure_str == "Pk" \o s.pressure
        logq_str     == "Q" \o RemoveDots(s.logq)
    IN  geo \o "_" \o s.model_name \o "_" \o logq_str \o "_" \o pressure_str \o "_" \o age_str

distribution_map == ("M" :> "M     : MRN distribution")

\* The depletion sub-branch with the dust depletion file in place of the general one.
depletion_lines_of_dust_file(s) ==
    IF s.dust_depl_path # None
    THEN <<"yes   : change depletions",
           s.dust_depl_path.s \o "\\",
           "no    : no more changes">>
    ELSE <<"no    : use default depletions">>

\* The depletion sub-branch of the dust sub-sequence.
depletion_lines(s) ==
    IF s.depl # None
    THEN <<"yes   : change depletions",
           s.depl.s \o "\\",
           "no    : no more changes">>
    ELSE <<"no    : use default depletions">>

\* The lines of the dust sub-sequence, after the include-dust line.
dust_lines(s) ==
    depletion_lines(s)
    \o <<IF Truthy(s.allow_grain_destruction) THEN "yes   : allow grain destruction"
                                      ELSE "no    : allow grain destruction",
         distribution_map[s.grain_distribution],
         "yes   : Include PAH molecules?",
         Str(s.pah_fraction) \o "   : fraction of Carbon Dust Depletion in PAHs",
         "Q     : PAH switch on QHDH < Value",
         s.pah_switch_value \o "   : PAH switch on Value",
         IF Truthy(s.graphite_cospatial) THEN "yes   : graphite grains to be cospatial with PAHs"
                                 ELSE "no    : graphite grains to be cospatial with PAHs",
         IF Truthy(s.eval_dust_temp) THEN "yes   : Evaluate dust temperatures and IR flux?"
                             ELSE "no    : Evaluate dust temperatures and IR flux?">>

\* The list `lines` of _build_input_content, for a configuration it can render.
build_lines(s, id_string) ==
    (IF s.abund # None
     THEN <<"yes   : change abundance", s.abund.s, "no    : no more changes">>
     ELSE <<"no    : use default abundance">>)
    \o <<"no    : no offsets",
         IF s.include_dust THEN "yes   : include dust" ELSE "no    : include dust">>
    \o (IF s.include_dust THEN dust_lines(s) ELSE <<>>)
    \o <<"P6    : the main Mappings model to use",
         "D     : Default ionisation values",
         "H     : Input spectral energy distribution data (usually Starburst99)",
         IF s.spec # None THEN s.spec.s
                          ELSE "Q/inputs/cont_a05t23isp_vm802.spectrum  : default spectrum",
         Str(s.age_index) \o "     : Age of the HII region. Age = (n-1)*0.5 Myr",
         "X     : eXit with current source",
         s.geometry \o "     : "
            \o (IF s.geometry = "S" THEN "Spherical Geometry" ELSE "Plane parallel geometry")
            \o ". (For Plane parallel, 'P', different options)",
         "L     : Source by Luminosity",
         "T     : Total or Ionising Luminosity",
         s.luminosity \o "    : bolometric source luminosity (log erg/s)",
         "B     : isoBaric, (const pressure)",
         s.pressure \o " :  Pressure regime (p/k, <10 as log)",
         s.temperature \o "     : log(Initial temperature)",
         s.filling_factor \o "     : filling factor (0<f<=1)",
         "q     : Give initial radius in terms of distance or Q(N) (d/q) ***nb old  options",
         s.logq \o " :   Q at inner radius (< 100 as log)",
         "y     : Volume integration over the whole sphere? (y/n)",
         "E     : Equilibrium ionization balance.",
         s.step_size \o "  : Step value of the photon absorption fraction  *******",
         "A     : Ionisation bounded, 99% neutral **********",
         "A   : Standard output",
         Str(id_string) \o " : ID string",
         "X   : end model">>

\* '\n'.join(lines) without the final newline.
join_lines_without_final_newline(lines) ==
    [i \in 1..Len(lines) |-> IF i < Len(lines) THEN lines[i] \o "\n" ELSE lines[i]]

\* '\n'.join(lines) + '\n', kept line by line.
join_lines(lines) == [i \in 1..Len(lines) |-> lines[i] \o "\n"]

\* _build_input_content with `self._depl += "\\"` for `self._depl + "\\"`: the
\* backslash is appended to the stored depletion path.
_build_input_content_appends_in_place(s, id_string) ==
    IF s.include_dust /\ s.grain_distribution \notin DOMAIN distribution_map
    THEN Raise(s, "KeyError")
    ELSE Return(IF s.include_dust /\ s.depl # None
                THEN [s EXCEPT !.depl = PyStr(s.depl.s \o "\\")] ELSE s,
                join_lines(build_lines(s, id_string)))

\* _build_input_content with the dust sub-sequence emitted whatever include_dust is.
_build_input_content_ignores_flag(s, id_string) ==
    IF s.grain_distribution \notin DOMAIN distribution_map
    THEN Raise(s, "KeyError")
    ELSE Return(s, join_lines(build_lines([s EXCEPT !.include_dust = TRUE], id_string)))

\* distribution_map[...] raises KeyError for a code the map does not hold.
_build_input_content(s, id_string) ==
    IF s.include_dust /\ s.grain_distribution \notin DOMAIN distribution_map
    THEN Raise(s, "KeyError")
    ELSE Return(s, join_lines(build_lines(s, id_string)))

preview_input_file(s, id_string) ==
    _build_input_content(s, IF id_string = None THEN PyStr(_generate_id_string(s))
                                                ELSE id_string)

\* str.capitalize() of a lower-case word
Capitalize(x) == UpperChar(CharAt(x, 1)) \o SubSeq(x, 2, Len(x))

\* The entries of `errors` for the (path, name) pairs checked, in order.
RECURSIVE validation_errors(_, _)
validation_errors(files, checked) ==
    IF checked = <<>> THEN <<>>
    ELSE LET path == Head(checked)[1]
             name == Head(checked)[2]
         IN  (IF path # None /\ ~Exists(files, path.s)
              THEN <<Capitalize(name) \o " file not found: " \o path.s>> ELSE <<>>)
             \o validation_errors(files, Tail(checked))

\* validate_params(): ret is True, or the lines of the ValueError's message.
validate_params(s, files) ==
    LET errors == validation_errors(files, <<<<s.abund, "abundance">>,
                                             <<s.depl, "depletion">>,
                                             <<s.spec, "spectrum">>>>)
    IN  IF errors # <<>>
        THEN [st |-> s, exc |-> "ValueError",
              ret |-> <<"Parameter validation failed:">> \o errors]
        ELSE Return(s, PyBool(TRUE))

\* write_input_file that always derives the identifier from the configuration.
write_input_file_derives_id(s, files, filename, id_string) ==
    LET base_dir  == ExpandUser("~/mappings520/lab/")
        name      == IF filename = None THEN s.model_name \o ".mv" ELSE filename.s
        full_path == Join(base_dir, name)
        c         == _build_input_content(s, PyStr(_generate_id_string(s)))
    IN  IF c.exc # "ok"
        THEN [st |-> c.st, exc |-> c.exc, ret |-> None,
              wrote |-> FALSE, path |-> full_path, content |-> <<>>]
        ELSE IF ~Exists(files, Dirname(full_path))
        THEN [st |-> c.st, exc |-> "IOError", ret |-> None,
              wrote |-> FALSE, path |-> full_path, content |-> <<>>]
        ELSE [st |-> c.st, exc |-> "ok", ret |-> PyStr(full_path),
              wrote |-> TRUE, path |-> full_path, content |-> c.ret]

\* write_input_file(filename, id_string): `path` is the file opened for writing and
\* `content` the text written to it (wrote is FALSE when nothing is written).  open()
\* fails when the directory of the file does not exist.
write_input_file(s, files, filename, id_string) ==
    LET base_dir  == ExpandUser("~/mappings520/lab/")
        name      == IF filename = None THEN s.model_name \o ".mv" ELSE filename.s
        full_path == Join(base_dir, name)
        id        == IF id_string = None THEN PyStr(_generate_id_string(s)) ELSE id_string
        c         == _build_input_content(s, id)
    IN  IF c.exc # "ok"
        THEN [st |-> c.st, exc |-> c.exc, ret |-> None,
              wrote |-> FALSE, path |-> full_path, content |-> <<>>]
        ELSE IF ~Exists(files, Dirname(full_path))
        THEN [st |-> c.st, exc |-> "IOError", ret |-> None,
              wrote |-> FALSE, path |-> full_path, content |-> <<>>]
        ELSE [st |-> c.st, exc |-> "ok", ret |-> PyStr(full_path),
              wrote |-> TRUE, path |-> full_path, content |-> c.ret]

(***************************************************************************)
(* The state machine: one action per call on the InputModel.               *)
(***************************************************************************)
NoCall == [op |-> "", args |-> <<>>, exc |-> "ok", ret |-> None]

\* The calls that are not setters.
IsQuery(op) == op \in {"preview_input_file", "validate_params", "write_input_file",
                       "os.remove", "get_abund", "get_depl", "get_spec", "get_age",
                       "get_geometry", "get_pressure", "get_temperature",
                       "get_filling_factor", "get_ionization_param", "get_step_size",
                       "get_luminosity", "get_output", "get_dust_settings"}

Init ==
    /\ \E name \in ModelNames :
          /\ self = init_params(name)
          /\ last = [op |-> "__init__", args |-> <<PyStr(name)>>, exc |-> "ok", ret |-> None]
    /\ fs = {FileA, FileB, LabDir}
    /\ prev = NoCall
    /\ ncalls = 0
    /\ written = <<>>

\* A setter call with outcome r.
Mutate(op, args, r) ==
    /\ self' = r.st
    /\ last' = [op |-> op, args |-> args, exc |-> r.exc, ret |-> r.ret]
    /\ prev' = NoCall
    /\ ncalls' = ncalls + 1
    /\ UNCHANGED <<fs, written>>

\* A call that is not a setter, with outcome r.
Query(op, args, r) ==
    /\ self' = r.st
    /\ last' = [op |-> op, args |-> args, exc |-> r.exc, ret |-> r.ret]
    /\ prev' = IF last.op = op /\ last.args = args THEN last ELSE NoCall
    /\ UNCHANGED <<fs, ncalls, written>>

\* A getter call with outcome r.
Get(op, r) ==
    /\ self' = r.st
    /\ last' = [op |-> op, args |-> <<>>, exc |-> r.exc, ret |-> r.ret]
    /\ prev' = NoCall
    /\ UNCHANGED <<fs, ncalls, written>>

SetAbund ==
    /\ ncalls < MaxCalls
    /\ \E path \in PathArgs \ {PyStr(FileB)} : Mutate("set_abund", <<path>>, set_abund(self, fs, path))

SetDepl ==
    /\ ncalls < MaxCalls
    /\ \E path \in PathArgs : Mutate("set_depl", <<path>>, set_depl(self, fs, path))

SetSpec ==
    /\ ncalls < MaxCalls
    /\ \E path \in PathArgs \ {PyStr(FileB)} : Mutate("set_spec", <<path>>, set_spec(self, fs, path))

\* The arguments a set_dust call can give besides include_dust and depl_path.
DustOptions ==
    [pah_fraction            |-> PahArgs,
     pah_switch_value        |-> SwitchArgs,
     eval_dust_temp          |-> FlagArgs \ {PyBool(FALSE)},
     graphite_cospatial      |-> FlagArgs \ {PyBool(FALSE)},
     allow_grain_destruction |-> FlagArgs \ {PyBool(FALSE)},
     grain_distribution      |-> GrainArgs \ {PyStr("M")}]

\* The set_dust calls of a run: include_dust, depl_path and at most one more argument
\* (none with the missing path, which raises before any other argument is read).
DustCalls ==
    UNION {{[DustCall(inc, path, None, None, None, None, None, None) EXCEPT ![k] = v] :
               v \in DustOptions[k]} :
             inc \in BOOLEAN, path \in {None, PyStr(FileA)}, k \in DOMAIN DustOptions}
    \cup {DustCall(inc, PyStr(Missing), None, None, None, None, None, None) :
             inc \in BOOLEAN}

SetDust ==
    /\ ncalls < MaxCalls
    /\ \E a \in DustCalls : Mutate("set_dust", <<a>>, set_dust(self, fs, a))

EnableDust ==
    /\ ncalls < MaxCalls
    /\ \E path \in PathArgs, dist \in {PyStr("M"), PyStr("s")} :
          Mutate("enable_dust", <<path, dist>>,
                 enable_dust(self, fs, path, PyFloat(30000), PyStr("4e2"), PyBool(FALSE),
                             PyBool(FALSE), PyBool(FALSE), dist))

DisableDust ==
    /\ ncalls < MaxCalls
    /\ Mutate("disable_dust", <<>>, disable_dust(self, fs))

SetGrainDestruction ==
    /\ ncalls < MaxCalls
    /\ \E allow \in FlagArgs \ {None} :
          Mutate("set_grain_destruction", <<allow>>, set_grain_destruction(self, allow))

SetGrainDistribution ==
    /\ ncalls < MaxCalls
    /\ \E d \in (GrainArgs \ {None}) \cup {PyInt(1)} :
          Mutate("set_grain_distribution", <<d>>, set_grain_distribution(self, d))

SetAge ==
    /\ ncalls < MaxCalls
    /\ \E index \in AgeArgs : Mutate("set_age", <<index>>, set_age(self, index))

SetGeometry ==
    /\ ncalls < MaxCalls
    /\ \E geo \in GeoArgs : Mutate("set_geometry", <<geo>>, set_geometry(self, geo))

SetPressure ==
    /\ ncalls < MaxCalls
    /\ \E logp \in NumArgs : Mutate("set_pressure", <<logp>>, set_pressure(self, logp))

SetTemperature ==
    /\ ncalls < MaxCalls
    /\ \E logTe \in NumArgs :
          Mutate("set_temperature", <<logTe>>, set_temperature(self, logTe))

SetFillingFactor ==
    /\ ncalls < MaxCalls
    /\ \E ff \in NumArgs :
          Mutate("set_filling_factor", <<ff>>, set_filling_factor(self, ff))

SetIonizationParam ==
    /\ ncalls < MaxCalls
    /\ \E logq \in NumArgs :
          Mutate("set_ionization_param", <<logq>>, set_ionization_param(self, logq))

SetStepSize ==
    /\ ncalls < MaxCalls
    /\ \E step \in StepArgs : Mutate("set_step_size", <<step>>, set_step_size(self, step))

SetLuminosity ==
    /\ ncalls < MaxCalls
    /\ \E logL \in NumArgs : Mutate("set_luminosity", <<logL>>, set_luminosity(self, logL))

SetOutput ==
    /\ ncalls < MaxCalls
    /\ \E path \in OutputArgs :
          LET r == set_output(self, fs, path)
          IN  /\ self' = r.st
              /\ last' = [op |-> "set_output", args |-> <<path>>, exc |-> r.exc, ret |-> r.ret]
              /\ fs' = fs \cup r.made
              /\ prev' = NoCall
              /\ ncalls' = ncalls + 1
              /\ UNCHANGED written

PreviewInputFile ==
    \E id_string \in IdArgs :
        Query("preview_input_file", <<id_string>>, preview_input_file(self, id_string))

ValidateParams ==
    Get("validate_params", validate_params(self, fs))

WriteInputFile ==
    /\ ncalls < MaxCalls
    /\ \E filename \in FileNameArgs, id_string \in IdArgs :
          LET r == write_input_file(self, fs, filename, id_string)
          IN  /\ self' = r.st
              /\ last' = [op |-> "write_input_file", args |-> <<filename, id_string>>,
                          exc |-> r.exc, ret |-> r.ret]
              /\ fs' = IF r.wrote THEN fs \cup {r.path} ELSE fs
              /\ written' = IF r.wrote THEN (r.path :> r.content) @@ written ELSE written
              /\ prev' = NoCall
              /\ ncalls' = ncalls + 1

\* A file a path of the configuration may name is removed from the disk.
RemoveFile ==
    /\ ncalls < MaxCalls
    /\ \E p \in fs \cap Paths :
          /\ fs' = fs \ {p}
          /\ last' = [op |-> "os.remove", args |-> <<PyStr(p)>>, exc |-> "ok", ret |-> None]
          /\ prev' = NoCall
          /\ ncalls' = ncalls + 1
          /\ UNCHANGED <<self, written>>

Next ==
    \/ SetAbund
    \/ SetDepl
    \/ SetSpec
    \/ SetDust
    \/ EnableDust
    \/ DisableDust
    \/ SetGrainDestruction
    \/ SetGrainDistribution
    \/ SetAge
    \/ SetGeometry
    \/ SetPressure
    \/ SetTemperature
    \/ SetFillingFactor
    \/ SetIonizationParam
    \/ SetStepSize
    \/ SetLuminosity
    \/ SetOutput
    \/ PreviewInputFile
    \/ ValidateParams
    \/ WriteInputFile
    \/ RemoveFile

Spec == Init /\ [][Next]_vars

(***************************************************************************)
(* The parameter store alone: the setters and the getters.                 *)
(***************************************************************************)
GetAbund == Get("get_abund", Return(self, get_abund(self)))

GetDepl == Get("get_depl", Return(self, get_depl(self)))

GetSpec == Get("get_spec", Return(self, get_spec(self)))

GetDustSettings == Get("get_dust_settings", Return(self, get_dust_settings(self)))

GetAge == Get("get_age", Return(self, get_age(self)))

GetGeometry == Get("get_geometry", Return(self, get_geometry(self)))

GetPressure ==
    Get("get_pressure", float_getter(self, self.pressure, get_pressure(self)))

GetTemperature ==
    Get("get_temperature", float_getter(self, self.temperature, get_temperature(self)))

GetFillingFactor == Get("get_filling_factor", Return(self, get_filling_factor(self)))

GetIonizationParam ==
    Get("get_ionization_param", float_getter(self, self.logq, get_ionization_param(self)))

GetStepSize ==
    Get("get_step_size", float_getter(self, self.step_size, get_step_size(self)))

GetLuminosity ==
    Get("get_luminosity", float_getter(self, self.luminosity, get_luminosity(self)))

GetOutput == Get("get_output", Return(self, get_output(self)))

StoreNext ==
    \/ SetAbund
    \/ SetDepl
    \/ SetSpec
    \/ SetDust
    \/ EnableDust
    \/ DisableDust
    \/ SetGrainDestruction
    \/ SetGrainDistribution
    \/ SetAge
    \/ SetGeometry
    \/ SetPressure
    \/ SetTemperature
    \/ SetFillingFactor
    \/ SetIonizationParam
    \/ SetStepSize
    \/ SetLuminosity
    \/ SetOutput
    \/ GetAbund
    \/ GetDepl
    \/ GetSpec
    \/ GetDustSettings
    \/ GetAge
    \/ GetGeometry
    \/ GetPressure
    \/ GetTemperature
    \/ GetFillingFactor
    \/ GetIonizationParam
    \/ GetStepSize
    \/ GetLuminosity
    \/ GetOutput

StoreSpec == Init /\ [][StoreNext]_vars


(***************************************************************************)
(* Vocabulary of the properties.                                           *)
(***************************************************************************)
EndsWith(x, suffix) ==
    /\ Len(x) >= Len(suffix)
    /\ SubSeq(x, Len(x) - Len(suffix) + 1, Len(x)) = suffix

\* The script text holds the line `line`.
HasLine(text, line) == \E i \in 1..Len(text) : text[i] = line \o "\n"

\* The number of lines of text equal to `line`.
CountLine(text, line) == Cardinality({i \in 1..Len(text) : text[i] = line \o "\n"})

\* The script text holds a line that ends with `label`.
HasLabel(text, label) == \E i \in 1..Len(text) : EndsWith(text[i], label \o "\n")

RECURSIVE IsSubsequence(_, _)
\* The lines of `part` occur in `text` in the same order.
IsSubsequence(part, text) ==
    IF Len(part) = 0 THEN TRUE
    ELSE IF Len(text) = 0 THEN FALSE
    ELSE IF Head(part) = Head(text) THEN IsSubsequence(Tail(part), Tail(text))
    ELSE IsSubsequence(part, Tail(text))

IsDigit(c) == c \in {"0", "1", "2", "3", "4", "5", "6", "7", "8", "9"}

\* x reads [-]digits.digits with exactly d digits after the point.
HasDecimals(x, d) ==
    LET body == IF Len(x) > 0 /\ CharAt(x, 1) = "-" THEN SubSeq(x, 2, Len(x)) ELSE x
        dot  == DotPos(body, 1)
    IN  /\ dot >= 2
        /\ Len(body) = dot + d
        /\ \A i \in 1..Len(body) : i # dot => IsDigit(CharAt(body, i))

\* The multiple of 10^-d nearest to v (in units of 1/Scale), the even one on a tie.
Nearest(v, d) ==
    LET unit == 10^(5 - d)
        lo   == (v \div unit) * unit
        hi   == lo + unit
    IN  IF v - lo < hi - v THEN lo
        ELSE IF v - lo > hi - v THEN hi
        ELSE IF (lo \div unit) % 2 = 0 THEN lo ELSE hi

\* The number a getter's result reads as, in units of 1/Scale.
ValueOf(r) == IF r.t = "str" THEN ParseFloat(r.s) ELSE r.n

\* The labels that end the lines of the dust sub-sequence.
DustLabels ==
    {": change depletions", ": use default depletions", ": allow grain destruction",
     ": MRN distribution", ": Include PAH molecules?",
     ": fraction of Carbon Dust Depletion in PAHs", ": PAH switch on QHDH < Value",
     ": PAH switch on Value", ": graphite grains to be cospatial with PAHs",
     ": Evaluate dust temperatures and IR flux?"}

\* The script text holds no line of the dust sub-sequence.
NoDustLines(text, s) ==
    /\ ~HasLine(text, "yes   : include dust")
    /\ \A label \in DustLabels : ~HasLabel(text, label)
    /\ \A p \in Paths : ~HasLine(text, p \o "\\")
    /\ CountLine(text, "no    : no more changes") = (IF s.abund # None THEN 1 ELSE 0)

Previewed == last.op = "preview_input_file"

(***************************************************************************)
(* C1.  Compiling twice with the same id_string and no setter call in      *)
(* between gives the same outcome and the same text, and a compile changes *)
(* no field of the configuration.                                          *)
(***************************************************************************)
C1_CompileIdempotent ==
    [][last'.op = "preview_input_file" =>
          /\ self' = self
          /\ (prev'.op = "preview_input_file" /\ prev'.args = last'.args) =>
                (last'.exc = prev'.exc /\ last'.ret = prev'.ret)]_vars

C1_Witness ==
    /\ Previewed /\ prev.op = "preview_input_file" /\ prev.args = last.args
    /\ last.exc = "ok" /\ ncalls = MaxCalls /\ self # init_params(self.model_name)

(***************************************************************************)
(* C2.  No compile succeeds and emits the include-dust line while dust is  *)
(* enabled and no dust depletion file is set.                              *)
(***************************************************************************)
C2_NoDustWithoutDepletionFile ==
    ~(/\ Previewed /\ last.exc = "ok"
      /\ self.include_dust /\ self.dust_depl_path = None
      /\ HasLine(last.ret, "yes   : include dust"))

(***************************************************************************)
(* C3.  A setter call that raises leaves every field of the configuration  *)
(* as it was before the call.                                              *)
(***************************************************************************)
C3_FailedSetterKeepsState ==
    [][(~IsQuery(last'.op) /\ last'.exc # "ok") => self' = self]_vars

(***************************************************************************)
(* C4.  Every compile succeeds, and with dust enabled its script holds a   *)
(* grain-distribution line that carries one of the three codes M, P, S.    *)
(***************************************************************************)
C4_CompileNeverFails ==
    Previewed =>
        /\ last.exc = "ok"
        /\ self.include_dust =>
              \E code \in valid_distributions, i \in 1..Len(last.ret) :
                  SubSeq(last.ret[i], 1, 7) = code \o "     :"
                  /\ EndsWith(last.ret[i], "distribution\n")

(***************************************************************************)
(* C5.  disable_dust (set_dust(False)) keeps the stored dust depletion     *)
(* file, and every compile while dust is disabled succeeds with exactly    *)
(* one "no    : include dust" line and no line of the dust sub-sequence.   *)
(***************************************************************************)
C5_DisableDustKeepsFile ==
    [][/\ (\/ last'.op = "disable_dust"
           \/ (/\ last'.op = "set_dust" /\ ~last'.args[1].include_dust
               /\ last'.args[1].depl_path = None)) =>
             (/\ self'.dust_depl_path = self.dust_depl_path
              /\ ~self'.include_dust)
       /\ (last'.op = "preview_input_file" /\ ~self'.include_dust) =>
             (/\ last'.exc = "ok"
              /\ CountLine(last'.ret, "no    : include dust") = 1
              /\ NoDustLines(last'.ret, self'))]_vars

C5_Witness ==
    /\ Previewed /\ last.exc = "ok"
    /\ ~self.include_dust /\ self.dust_depl_path # None /\ self.depl # None

(***************************************************************************)
(* C6.  set_abund with a path that is not on disk raises FileNotFoundError *)
(* and get_abund returns afterwards what it returned before the call.      *)
(***************************************************************************)
C6_SetAbundMissingFile ==
    [][(/\ last'.op = "set_abund" /\ last'.args[1] # None
        /\ ~Exists(fs, last'.args[1].s)) =>
          (last'.exc = "FileNotFoundError" /\ get_abund(self') = get_abund(self))]_vars

C6_Witness ==
    /\ last.op = "set_abund" /\ last.exc = "FileNotFoundError"
    /\ get_abund(self) = PyStr(FileA)

(***************************************************************************)
(* C7.  After a numeric setter succeeded with a value v, the getter of the *)
(* field reads as v rounded to the field's precision (2 decimals; 4 for    *)
(* the step size), and a successful compile carries on the field's line a  *)
(* string with exactly that many decimals reading as the same number.      *)
(***************************************************************************)
\* The line of `text` that ends with `label` starts with a d-decimal string reading as r.
LineCarries(text, label, r, d) ==
    \E i \in 1..Len(text) :
        /\ EndsWith(text[i], label \o "\n")
        /\ LET x == SubSeq(text[i], 1, Len(text[i]) - Len(label) - 1)
           IN  HasDecimals(x, d) /\ ParseFloat(x) = r

RoundTrip(op, got, label, d) ==
    (last.op = op /\ last.exc = "ok" /\ last.args[1] # None) =>
        LET r == Nearest(last.args[1].n, d)
            c == preview_input_file(self, None)
        IN  /\ ValueOf(got) = r
            /\ c.exc = "ok" => LineCarries(c.ret, label, r, d)

C7_NumericRoundTrip ==
    /\ RoundTrip("set_pressure", get_pressure(self),
                 " :  Pressure regime (p/k, <10 as log)", 2)
    /\ RoundTrip("set_temperature", get_temperature(self),
                 "     : log(Initial temperature)", 2)
    /\ RoundTrip("set_filling_factor", get_filling_factor(self),
                 "     : filling factor (0<f<=1)", 2)
    /\ RoundTrip("set_ionization_param", get_ionization_param(self),
                 " :   Q at inner radius (< 100 as log)", 2)
    /\ RoundTrip("set_luminosity", get_luminosity(self),
                 "    : bolometric source luminosity (log erg/s)", 2)
    /\ RoundTrip("set_step_size", get_step_size(self),
                 "  : Step value of the photon absorption fraction  *******", 4)

C7_Witness ==
    /\ last.op = "set_step_size" /\ last.exc = "ok" /\ last.args[1] = PyFloat(99996)
    /\ self.pressure = "6.12"

(***************************************************************************)
(* C8.  Once a numeric setter has been called, with a value or with no     *)
(* argument, the stored string of its field has exactly 2 decimals (4 for  *)
(* the step size).                                                         *)
(***************************************************************************)
C8_StoredCanonical ==
    /\ last.op = "set_pressure"         => HasDecimals(self.pressure, 2)
    /\ last.op = "set_temperature"      => HasDecimals(self.temperature, 2)
    /\ last.op = "set_filling_factor"   => HasDecimals(self.filling_factor, 2)
    /\ last.op = "set_ionization_param" => HasDecimals(self.logq, 2)
    /\ last.op = "set_luminosity"       => HasDecimals(self.luminosity, 2)
    /\ last.op = "set_step_size"        => HasDecimals(self.step_size, 4)

(***************************************************************************)
(* C9.  The generated identifier depends on the model name, geometry,      *)
(* ionization parameter, pressure and age index only, and changing any one *)
(* of the last four changes it; a compile without id_string carries it.    *)
(***************************************************************************)
C9_IdStable ==
    LET id == _generate_id_string(self)
    IN  /\ id = _generate_id_string(
                   [init_params(self.model_name) EXCEPT
                       !.geometry = self.geometry, !.logq = self.logq,
                       !.pressure = self.pressure, !.age_index = self.age_index])
        /\ \A g \in {"S", "P"} :
              g # self.geometry => _generate_id_string([self EXCEPT !.geometry = g]) # id
        /\ \A v \in NumArgs :
              LET x == set_ionization_param(self, v).st
              IN  x.logq # self.logq => _generate_id_string(x) # id
        /\ \A v \in NumArgs :
              LET x == set_pressure(self, v).st
              IN  x.pressure # self.pressure => _generate_id_string(x) # id
        /\ \A v \in AgeArgs :
              LET x == set_age(self, v).st
              IN  x.age_index # self.age_index => _generate_id_string(x) # id
        /\ (Previewed /\ last.args[1] = None /\ last.exc = "ok") =>
              HasLine(last.ret, id \o " : ID string")

C9_Witness ==
    /\ Previewed /\ last.args[1] = None /\ last.exc = "ok"
    /\ self.geometry = "P" /\ self.logq = "6.12"

(***************************************************************************)
(* C10.  With dust disabled and every other field at its default, the      *)
(* compiled script holds the listed lines in the listed order, ends with   *)
(* the end-model line and holds no line of the dust sub-sequence.          *)
(***************************************************************************)
DefaultNoDust == [init_params(self.model_name) EXCEPT !.include_dust = FALSE]

C10_Expected ==
    join_lines(<<"no    : use default abundance",
                 "no    : no offsets",
                 "no    : include dust",
                 "P6    : the main Mappings model to use",
                 "D     : Default ionisation values",
                 "H     : Input spectral energy distribution data (usually Starburst99)",
                 "Q/inputs/cont_a05t23isp_vm802.spectrum  : default spectrum",
                 "9     : Age of the HII region. Age = (n-1)*0.5 Myr",
                 "S     : Spherical Geometry. (For Plane parallel, 'P', different options)",
                 "40.00    : bolometric source luminosity (log erg/s)",
                 "6.00 :  Pressure regime (p/k, <10 as log)",
                 "4.00     : log(Initial temperature)",
                 "1.0     : filling factor (0<f<=1)",
                 "8.00 :   Q at inner radius (< 100 as log)",
                 "0.0200  : Step value of the photon absorption fraction  *******",
                 "X   : end model">>)

C10_DefaultScript ==
    (Previewed /\ self = DefaultNoDust) =>
        /\ last.exc = "ok"
        /\ IsSubsequence(C10_Expected, last.ret)
        /\ last.ret[Len(last.ret)] = "X   : end model\n"
        /\ NoDustLines(last.ret, self)

C10_Witness ==
    Previewed /\ self = DefaultNoDust /\ last.exc = "ok" /\ Len(last.ret) > 0

(***************************************************************************)
(* C11.  Whenever dust is enabled, a compile gives a script whose dust      *)
(* sub-sequence is, in this order and with nothing in between: the         *)
(* include-dust line, the depletion sub-branch, the grain-destruction      *)
(* line, the grain-distribution line, the include-PAH line, the PAH        *)
(* fraction, the switch selector, the PAH switch value, the                *)
(* graphite-cospatial line and the dust-temperature line, each yes/no line *)
(* reading the current value of its flag.                                  *)
(***************************************************************************)
StartsWith(x, prefix) ==
    /\ Len(x) >= Len(prefix)
    /\ SubSeq(x, 1, Len(prefix)) = prefix

\* The index of the first line of text equal to `line`.
FirstLine(text, line) ==
    CHOOSE i \in 1..Len(text) :
        /\ text[i] = line \o "\n"
        /\ \A j \in 1..(i - 1) : text[j] # line \o "\n"

\* The yes/no line of flag v.
BoolLine(v, label) == (IF Truthy(v) THEN "yes   : " ELSE "no    : ") \o label \o "\n"

\* The dust sub-sequence of text is the one of configuration s; the line after it
\* opens the trailer.
DustSequenceAt(text, s) ==
    /\ HasLine(text, "yes   : include dust")
    /\ LET i == FirstLine(text, "yes   : include dust")
           d == IF s.depl # None THEN 3 ELSE 1
           block(k) == text[i + k]
       IN  /\ Len(text) >= i + d + 9
           /\ IF s.depl # None
              THEN /\ block(1) = "yes   : change depletions\n"
                   /\ StartsWith(block(2), s.depl.s)
                   /\ block(3) = "no    : no more changes\n"
              ELSE block(1) = "no    : use default depletions\n"
           /\ block(d + 1) = BoolLine(s.allow_grain_destruction, "allow grain destruction")
           /\ StartsWith(block(d + 2), s.grain_distribution)
           /\ EndsWith(block(d + 2), " distribution\n")
           /\ block(d + 3) = "yes   : Include PAH molecules?\n"
           /\ block(d + 4) = Str(s.pah_fraction)
                                \o "   : fraction of Carbon Dust Depletion in PAHs\n"
           /\ block(d + 5) = "Q     : PAH switch on QHDH < Value\n"
           /\ block(d + 6) = s.pah_switch_value \o "   : PAH switch on Value\n"
           /\ block(d + 7) = BoolLine(s.graphite_cospatial,
                                      "graphite grains to be cospatial with PAHs")
           /\ block(d + 8) = BoolLine(s.eval_dust_temp,
                                      "Evaluate dust temperatures and IR flux?")
           /\ block(d + 9) = "P6    : the main Mappings model to use\n"

\* C11: every compile with dust enabled gives a script with this dust sub-sequence.
C11_DustSequence ==
    (Previewed /\ self.include_dust) =>
        /\ last.exc = "ok"
        /\ DustSequenceAt(last.ret, self)

(***************************************************************************)
(* C12.  Every setter call that succeeds returns the instance it was       *)
(* called on, so that setter calls can be chained.                         *)
(***************************************************************************)
Setters ==
    {"set_abund", "set_depl", "set_spec", "set_dust", "enable_dust", "disable_dust",
     "set_grain_destruction", "set_grain_distribution", "set_age", "set_geometry",
     "set_pressure", "set_temperature", "set_filling_factor", "set_ionization_param",
     "set_step_size", "set_luminosity", "set_output"}

\* The value of a call that returns the InputModel it was called on.
SelfRef == [t |-> "InputModel", n |-> 0, s |-> "self"]

\* C12: a setter call that succeeds returns the instance.
C12_SettersReturnSelf ==
    (last.op \in Setters /\ last.exc = "ok") => last.ret = SelfRef

(***************************************************************************)
(* C13.  validate_params re-checks every file path the configuration       *)
(* holds (abundance, depletion, spectrum, dust depletion): when one of     *)
(* them no longer exists it fails with one error that lists every missing  *)
(* path, and it returns success only when every path that is set exists.   *)
(***************************************************************************)
\* The paths the configuration holds that are not on disk.
MissingPaths(s, files) ==
    {p \in {s.abund, s.depl, s.spec, s.dust_depl_path} : p # None /\ ~Exists(files, p.s)}

\* C13: validate_params succeeds iff no stored path is missing, and its error lists
\* every missing path.
C13_ValidateChecksEveryPath ==
    last.op = "validate_params" =>
        /\ (last.exc = "ok") <=> (MissingPaths(self, fs) = {})
        /\ last.exc = "ok" => last.ret = PyBool(TRUE)
        /\ last.exc # "ok" =>
              /\ last.exc = "ValueError"
              /\ \A p \in MissingPaths(self, fs) :
                    \E i \in 1..Len(last.ret) : EndsWith(last.ret[i], p.s)

(***************************************************************************)
(* C14.  The text write_input_file writes to its file is the text          *)
(* preview_input_file returns for the same configuration and id_string,    *)
(* it writes nothing when the compile or the write fails, and it changes   *)
(* no field of the configuration.                                          *)
(***************************************************************************)
C14_WriteMatchesPreview ==
    [][last'.op = "write_input_file" =>
          LET p == preview_input_file(self, last'.args[2])
          IN  /\ self' = self
              /\ p.exc # "ok" => (last'.exc = p.exc /\ written' = written)
              /\ last'.exc \notin {"ok", p.exc} => (last'.exc = "IOError" /\ written' = written)
              /\ last'.exc = "ok" =>
                    /\ p.exc = "ok"
                    /\ last'.ret.s \in DOMAIN written'
                    /\ written'[last'.ret.s] = p.ret
                    /\ \A f \in DOMAIN written : f # last'.ret.s => written'[f] = written[f]]_vars

C14_Witness ==
    /\ last.op = "write_input_file" /\ last.exc = "ok"
    /\ last.args[2] = PyStr("run_01")
    /\ self # init_params(self.model_name)
    /\ HasLine(written[last.ret.s], "run_01 : ID string")

(***************************************************************************)
(* C15.  write_input_file creates the missing parent directories of its    *)
(* destination before writing: when the parent directory does not exist    *)
(* but can be created the call succeeds and returns the written path; it   *)
(* ends in an I/O error only when the destination cannot be written, and   *)
(* then leaves no file.  (Every directory of the model can be created, so  *)
(* a call whose compile succeeds has to succeed.)                          *)
(***************************************************************************)
\* The file a write_input_file call with these arguments writes.
Destination(s, filename) ==
    Join(ExpandUser("~/mappings520/lab/"),
         IF filename = None THEN s.model_name \o ".mv" ELSE filename.s)

\* C15: a write_input_file call whose compile succeeds writes its destination,
\* creating the parent directory when it is missing.
C15_WriteCreatesParentDirs ==
    (last.op = "write_input_file" /\ last.exc # "KeyError") =>
        LET dest == Destination(self, last.args[1])
        IN  /\ last.exc = "ok"
            /\ last.ret = PyStr(dest)
            /\ Exists(fs, Dirname(dest))
            /\ Exists(fs, dest)
            /\ dest \in DOMAIN written

(***************************************************************************)
(* C16 as stated.  In every state reachable through setter calls every     *)
(* getter returns without failing and changes no field, and a getter of a  *)
(* numeric field returns a number (not its string form) or None.           *)
(***************************************************************************)
Getters ==
    {"get_abund", "get_depl", "get_spec", "get_age", "get_geometry", "get_pressure",
     "get_temperature", "get_filling_factor", "get_ionization_param", "get_step_size",
     "get_luminosity", "get_output", "get_dust_settings"}

FloatGetters ==
    {"get_pressure", "get_temperature", "get_ionization_param", "get_step_size",
     "get_luminosity"}

\* C16 as stated: getters are total and pure, and numeric getters return numbers.
C16_GettersReturnNumbers ==
    [][last'.op \in Getters =>
          /\ self' = self
          /\ last'.exc = "ok"
          /\ last'.op \in FloatGetters \cup {"get_age", "get_filling_factor"} =>
                last'.ret.t \in {"float", "int", "NoneType"}]_vars

(***************************************************************************)
(* C16, amended.  In every state reachable through setter calls every      *)
(* getter returns without failing and changes no field; get_pressure,      *)
(* get_temperature, get_ionization_param, get_step_size and get_luminosity *)
(* return the float the stored string reads as, get_age returns the int    *)
(* index, and get_filling_factor returns the stored string itself; the     *)
(* path getters return a str or None.                                      *)
(***************************************************************************)
\* The stored string a float getter converts.
StoredText(s, op) ==
    CASE op = "get_pressure"         -> s.pressure
      [] op = "get_temperature"      -> s.temperature
      [] op = "get_ionization_param" -> s.logq
      [] op = "get_step_size"        -> s.step_size
      [] op = "get_luminosity"       -> s.luminosity

\* C16, amended: getters are total and pure; get_filling_factor returns the stored string.
C16_GettersTotalAndPure ==
    [][last'.op \in Getters =>
          /\ self' = self
          /\ last'.exc = "ok"
          /\ last'.op \in FloatGetters =>
                /\ last'.ret.t = "float"
                /\ last'.ret.n = ParseFloat(StoredText(self, last'.op))
          /\ last'.op = "get_age" => (last'.ret.t = "int" /\ last'.ret = self.age_index)
          /\ last'.op = "get_filling_factor" => last'.ret = PyStr(self.filling_factor)
          /\ last'.op \in {"get_abund", "get_depl", "get_spec", "get_output"} =>
                last'.ret.t \in {"str", "NoneType"}
          /\ last'.op = "get_geometry" => last'.ret = self.geometry
          /\ last'.op = "get_dust_settings" =>
                /\ last'.ret.depl_path = self.dust_depl_path
                /\ last'.ret.pah_fraction = self.pah_fraction]_vars

C16_Witness ==
    /\ last.op = "get_filling_factor" /\ last.exc = "ok"
    /\ ncalls > 0 /\ self.filling_factor # "1.0"
    /\ last.ret = PyStr(self.filling_factor)

(***************************************************************************)
(* C17.  Every script a compile gives follows the fixed order: the         *)
(* abundance branch (three lines with the path iff an abundance file is    *)
(* set, else the default line), the no-offsets line, the dust branch, the  *)
(* trailer, the spectrum line (the path iff a spectrum file is set, else   *)
(* the default spectrum), then the age, geometry, luminosity, pressure,    *)
(* temperature, filling-factor, ionization-parameter and step-size lines,  *)
(* then the identifier line (the id_string given, or the derived one)      *)
(* immediately followed by the end-model line as the last line; and every  *)
(* line, the last included, ends with a newline.                           *)
(***************************************************************************)
\* The lines from the trailer to the step size, in the order C17 lists them.
TrailerAndValues(s) ==
    join_lines(
      <<"P6    : the main Mappings model to use",
        "D     : Default ionisation values",
        "H     : Input spectral energy distribution data (usually Starburst99)",
        IF s.spec # None THEN s.spec.s
                         ELSE "Q/inputs/cont_a05t23isp_vm802.spectrum  : default spectrum",
        Str(s.age_index) \o "     : Age of the HII region. Age = (n-1)*0.5 Myr",
        IF s.geometry = "S"
        THEN "S     : Spherical Geometry. (For Plane parallel, 'P', different options)"
        ELSE "P     : Plane parallel geometry. (For Plane parallel, 'P', different options)",
        s.luminosity \o "    : bolometric source luminosity (log erg/s)",
        s.pressure \o " :  Pressure regime (p/k, <10 as log)",
        s.temperature \o "     : log(Initial temperature)",
        s.filling_factor \o "     : filling factor (0<f<=1)",
        s.logq \o " :   Q at inner radius (< 100 as log)",
        s.step_size \o "  : Step value of the photon absorption fraction  *******">>)

\* C17: the lines of every compiled script follow the fixed order.
C17_ScriptOrder ==
    (Previewed /\ last.exc = "ok") =>
        LET text == last.ret
            n    == Len(text)
            a    == IF self.abund # None THEN 3 ELSE 1
            dust == IF ~self.include_dust THEN 1
                    ELSE IF self.depl # None THEN 12 ELSE 10
            id   == IF last.args[1] = None THEN _generate_id_string(self)
                                           ELSE last.args[1].s
        IN  /\ n >= a + 1 + dust + 2
            /\ IF self.abund # None
               THEN /\ text[1] = "yes   : change abundance\n"
                    /\ text[2] = self.abund.s \o "\n"
                    /\ text[3] = "no    : no more changes\n"
               ELSE text[1] = "no    : use default abundance\n"
            /\ text[a + 1] = "no    : no offsets\n"
            /\ IF self.include_dust
               THEN /\ text[a + 2] = "yes   : include dust\n"
                    /\ FirstLine(text, "yes   : include dust") = a + 2
                    /\ DustSequenceAt(text, self)
               ELSE text[a + 2] = "no    : include dust\n"
            /\ text[a + 1 + dust + 1] = "P6    : the main Mappings model to use\n"
            /\ IsSubsequence(TrailerAndValues(self), SubSeq(text, a + 1 + dust + 1, n - 2))
            /\ text[n - 1] = id \o " : ID string\n"
            /\ text[n] = "X   : end model\n"
            /\ \A i \in 1..n : EndsWith(text[i], "\n")

C17_Witness ==
    /\ Previewed /\ last.exc = "ok"
    /\ self.abund # None /\ self.spec # None /\ self.include_dust
    /\ last.args[1] = PyStr("run_01")
    /\ last.ret[Len(last.ret)] = "X   : end model\n"

(***************************************************************************)
(* C18.  In every state reachable from construction through setter calls,  *)
(* successful or failing, the geometry is "S" or "P", the grain            *)
(* distribution is "M", "P" or "S" (upper-case even when given in lower    *)
(* case), the age index is an integer >= 0, the PAH fraction lies in       *)
(* [0, 1] and the three dust flags are booleans.                           *)
(***************************************************************************)
C18_FieldDomains ==
    /\ self.geometry \in {"S", "P"}
    /\ self.grain_distribution \in {"M", "P", "S"}
    /\ IsInt(self.age_index) /\ self.age_index.n >= 0
    /\ IsNumber(self.pah_fraction)
    /\ 0 <= self.pah_fraction.n /\ self.pah_fraction.n <= Scale
    /\ IsBool(self.eval_dust_temp)
    /\ IsBool(self.graphite_cospatial)
    /\ IsBool(self.allow_grain_destruction)
    /\ (last.op = "set_grain_distribution" /\ last.exc = "ok") =>
          /\ self.grain_distribution = Upper(last.args[1].s)
          /\ self.grain_distribution = Upper(self.grain_distribution)

\* A setter call has failed after a grain distribution given in lower case.
C18_Witness ==
    /\ last.op \in Setters /\ last.exc # "ok"
    /\ self.grain_distribution = "P"

(***************************************************************************)
(* C19.  The compiled script does not depend on the dust depletion file:   *)
(* configurations that differ only in it compile to the same text; the     *)
(* depletion sub-branch of the dust sequence is selected by the general    *)
(* depletion file (set_depl) and emits it; and with dust enabled, a dust   *)
(* depletion file set and no general depletion file, the script holds the  *)
(* use-default-depletions line.                                            *)
(***************************************************************************)
C19_DustFileNotCompiled ==
    /\ Previewed =>
          \A d \in {None, PyStr(FileA), PyStr(FileB)} \ {self.dust_depl_path} :
             LET other == preview_input_file([self EXCEPT !.dust_depl_path = d],
                                             last.args[1])
             IN  other.exc = last.exc /\ other.ret = last.ret
    /\ (Previewed /\ last.exc = "ok" /\ self.include_dust) =>
          IF self.depl # None
          THEN /\ HasLine(last.ret, "yes   : change depletions")
               /\ HasLine(last.ret, self.depl.s \o "\\")
               /\ ~HasLine(last.ret, "no    : use default depletions")
               /\ self.dust_depl_path \notin {None, self.depl} =>
                     ~HasLine(last.ret, self.dust_depl_path.s \o "\\")
          ELSE /\ HasLine(last.ret, "no    : use default depletions")
               /\ ~HasLine(last.ret, "yes   : change depletions")
               /\ \A p \in Paths : ~HasLine(last.ret, p \o "\\")

C19_Witness ==
    /\ Previewed /\ last.exc = "ok" /\ self.include_dust
    /\ self.dust_depl_path = PyStr(FileA) /\ self.depl = None
    /\ HasLine(last.ret, "no    : use default depletions")

(***************************************************************************)
(* C20.  A successful set_dust call sets include_dust and changes only     *)
(* the dust fields whose argument was given (not None); every other dust   *)
(* field and every non-dust field keeps its value.  A successful           *)
(* enable_dust called with the path only sets the PAH fraction, the PAH    *)
(* switch value, the three flags and the grain distribution to their       *)
(* defaults (0.3, "4e2", False, False, False, "M") whatever they were.     *)
(***************************************************************************)
NonDustFields ==
    {"model_name", "abund", "depl", "spec", "age_index", "geometry", "pressure",
     "temperature", "filling_factor", "logq", "step_size", "luminosity", "output_path"}

\* Field f of the configuration is the argument v when given, else what it was.
SetOrKept(f, v, stored) == self'[f] = IF v # None THEN stored ELSE self[f]

=============================================================================
